---- MODULE Spec2Model ----
(***************************************************************************)
(* The incremental synchronisation protocol of the RAG in a Box Python     *)
(* client (sdk/python/ragbox/client.py): one RagBoxClient with its local   *)
(* cache _pushed_docs, talking to the remote document store.               *)
(*                                                                         *)
(* The client code is modelled from the source.  The server is not part of *)
(* the source files; its request handlers (Server...) are modelled from the*)
(* external-interface section of the specification.                        *)
(***************************************************************************)
EXTENDS Integers, Sequences, FiniteSets, TLC

VARIABLES
    pushed_docs,    \* RagBoxClient._pushed_docs: doc_id -> content_hash (a dict)
    store,          \* the remote store: document id -> stored document
    lastSyncTime,   \* the remote store's last-sync timestamp: "never", or "stamped"
    confirmed,      \* history: id -> content of the last push of id the store
                    \* confirmed in this session, dropped when a delete, a clear_all
                    \* or a sync whose keep_ids exclude id has been confirmed
    last,           \* history: the last client call, its arguments and its outcome
    pre,            \* history: the state as it was when the last call began
    peer_docs,      \* _pushed_docs of a second RagBoxClient of the same store
    peer_state,     \* that client: "none" (not constructed), "fresh", "used"
    caller,         \* history: the client that made the last call, "main" or "peer"
    inflight,       \* two callers sharing the client: where each is in its call
    run             \* examples/ingest_directory.py main(): its position and locals

vars == <<pushed_docs, store, lastSyncTime, confirmed, last, pre,
          peer_docs, peer_state, caller, inflight, run>>

(***************************************************************************)
(* Bounds of the model.                                                    *)
(***************************************************************************)
\* the longest batch handed to upsert_batch
MaxBatch == 3
\* the longest keep_ids sequence handed to sync
MaxKeep == 2
\* documents stored by upload at any time
MaxUploads == 1

(***************************************************************************)
(* Documents.                                                              *)
(***************************************************************************)
Ids == {"A", "B"}
Contents == {"alpha", "beta"}
EmptyMeta == [k \in {} |-> ""]
Metas == {EmptyMeta, [source |-> "wiki"]}

\* dataclass Document
Document == [id : Ids, content : Contents, metadata : Metas]

\* hashlib.sha256(content.encode('utf-8')).hexdigest(), tabulated on Contents
sha256_hexdigest(content) ==
    CASE content = "alpha" ->
           "8ed3f6ad685b959ead7022518e1af76cd816f8e8ec7ccdda1ed4018e8f2223f8"
      [] content = "beta" ->
           "f44e64e75f3948e9f73f8dfa94721c4ce8cbb4f265c4790c702b2d41cfbf2753"

\* a plausible bug: the fingerprint also covers the metadata
content_hash_with_metadata(doc) ==
    IF DOMAIN doc.metadata = {}
    THEN sha256_hexdigest(doc.content)
    ELSE "meta+" \o sha256_hexdigest(doc.content)

\* Document.content_hash
content_hash(doc) == sha256_hexdigest(doc.content)

(***************************************************************************)
(* Python values.                                                          *)
(***************************************************************************)
\* {} : the empty dict
EmptyDict == [k \in {} |-> ""]
\* json=None : a request without a body
NoBody == [k \in {} |-> ""]
\* set(xs)
Range(xs) == {xs[i] : i \in DOMAIN xs}
\* d[k] = v on a dict
DictSet(d, k, v) == [x \in DOMAIN d \cup {k} |-> IF x = k THEN v ELSE d[x]]
\* the dict d without the keys outside keys
DictRestrict(d, keys) == [x \in DOMAIN d \cap keys |-> d[x]]

\* the state a call reads and writes: the client's cache and the remote store
World == [pushed_docs |-> pushed_docs, store |-> store, lastSyncTime |-> lastSyncTime]

(***************************************************************************)
(* The remote store.  Its handlers are modelled from the specification's   *)
(* interface table: PUT /documents/{id} is an idempotent upsert answering  *)
(* created, updated or unchanged; DELETE removes one or all documents;     *)
(* POST /sync deletes every document absent from keepDocumentIds, reports  *)
(* prunedCount and stamps the last-sync time.                              *)
(***************************************************************************)
\* chunks the store's chunker produces for a content
ChunksOf(content) ==
    CASE content = "alpha" -> 1
      [] content = "beta" -> 2

StoredDocument(content, contentHash, metadata) ==
    [content |-> content, contentHash |-> contentHash, metadata |-> metadata]

\* documentCount and chunkCount of GET /api/v1/sync/status
RECURSIVE SumChunks(_, _)
SumChunks(st, ids) ==
    IF ids = {} THEN 0
    ELSE LET id == CHOOSE x \in ids : TRUE
         IN ChunksOf(st[id].content) + SumChunks(st, ids \ {id})
documentCount(st) == Cardinality(DOMAIN st)
chunkCount(st) == SumChunks(st, DOMAIN st)

\* PUT /api/v1/documents/{id}
ServerUpsert(w, id, json) ==
    LET metadata == IF "metadata" \in DOMAIN json THEN json.metadata ELSE EmptyDict
        stored == StoredDocument(json.content, json.contentHash, metadata)
    IN IF id \notin DOMAIN w.store
       THEN [w |-> [w EXCEPT !.store = DictSet(w.store, id, stored)],
             json |-> [documentId |-> id, chunks |-> ChunksOf(json.content),
                       action |-> "created", message |-> "Document created"]]
       ELSE IF w.store[id].contentHash = json.contentHash
       THEN [w |-> w,
             json |-> [documentId |-> id, chunks |-> 0,
                       action |-> "unchanged", message |-> "Document unchanged"]]
       ELSE [w |-> [w EXCEPT !.store = DictSet(w.store, id, stored)],
             json |-> [documentId |-> id, chunks |-> ChunksOf(json.content),
                       action |-> "updated", message |-> "Document updated"]]

\* DELETE /api/v1/documents/{id}
ServerDelete(w, id) ==
    [w |-> [w EXCEPT !.store = DictRestrict(w.store, DOMAIN w.store \ {id})],
     json |-> NoBody]

\* DELETE /api/v1/documents
ServerDeleteAll(w) ==
    [w |-> [w EXCEPT !.store = EmptyDict], json |-> NoBody]

\* POST /api/v1/sync
ServerSync(w, json) ==
    LET keep == IF "keepDocumentIds" \in DOMAIN json
                THEN Range(json.keepDocumentIds)
                ELSE DOMAIN w.store
    IN [w |-> [w EXCEPT !.store = DictRestrict(w.store, keep),
                        !.lastSyncTime = "stamped"],
        json |-> [prunedCount |-> Cardinality(DOMAIN w.store \ keep)]]

\* identifiers the store assigns to uploaded documents, in the order it uses them
UuidPool == <<"uuid-1", "uuid-2", "uuid-3">>
Uuids == Range(UuidPool)

\* POST /api/v1/documents: the store assigns an unused identifier of its own
ServerUpload(w, json) ==
    LET metadata == IF "metadata" \in DOMAIN json THEN json.metadata ELSE EmptyDict
        free == {i \in DOMAIN UuidPool : UuidPool[i] \notin DOMAIN w.store}
        id == UuidPool[CHOOSE i \in free : \A j \in free : i <= j]
        stored == StoredDocument(json.content, sha256_hexdigest(json.content), metadata)
    IN [w |-> [w EXCEPT !.store = DictSet(w.store, id, stored)],
        json |-> [documentId |-> id, chunks |-> ChunksOf(json.content)]]

\* the requests that read: listing, query, search, status, health, configuration
ServerRead(w, req) ==
    [w |-> w,
     json |->
       CASE req.path = "/api/v1/documents" ->
              [documents |-> DOMAIN w.store, total |-> documentCount(w.store)]
         [] req.path = "/api/v1/query" -> [answer |-> "answer", contexts |-> <<>>]
         [] req.path = "/api/v1/search" -> [results |-> <<>>, count |-> 0]
         [] req.path = "/api/v1/sync/status" ->
              [lastSyncTime |-> w.lastSyncTime,
               documentCount |-> documentCount(w.store),
               chunkCount |-> chunkCount(w.store)]
         [] req.path = "/api/v1/sync/documents" -> [documentIds |-> DOMAIN w.store]
         [] req.path = "/health" -> [status |-> "healthy"]
         [] req.path = "/health/ready" -> [status |-> "ready"]
         [] req.path = "/api/v1/stats" ->
              [documentCount |-> documentCount(w.store),
               chunkCount |-> chunkCount(w.store)]
         [] req.path = "/api/v1/config" -> [config |-> "current"]
         [] req.path = "/api/v1/config/providers" -> [providers |-> "available"]]

\* the store's routing of a request
Server(w, req) ==
    CASE req.method = "PUT" /\ req.path = "/api/v1/documents/{id}" ->
           ServerUpsert(w, req.id, req.json)
      [] req.method = "DELETE" /\ req.path = "/api/v1/documents/{id}" ->
           ServerDelete(w, req.id)
      [] req.method = "DELETE" /\ req.path = "/api/v1/documents" ->
           ServerDeleteAll(w)
      [] req.method = "POST" /\ req.path = "/api/v1/sync" ->
           ServerSync(w, req.json)
      [] req.method = "POST" /\ req.path = "/api/v1/documents" ->
           ServerUpload(w, req.json)
      [] OTHER -> ServerRead(w, req)

(***************************************************************************)
(* RagBoxClient.                                                           *)
(***************************************************************************)
\* what the transport does to one request:
\*   "ok"    the store serves it and the response arrives with a success status
\*   "error" session.request raises, or raise_for_status raises on an error
\*           status; the store has changed nothing
\*   "lost"  the store serves it, but the response times out at the client
Nets == {"ok", "error", "lost"}

\* RagBoxClient._request: the response's json, or the exception it raises
request(w, req, net) ==
    CASE net = "ok" ->
           LET served == Server(w, req)
           IN [w |-> served.w, raised |-> FALSE, json |-> served.json]
      [] net = "error" ->
           [w |-> w, raised |-> TRUE, json |-> NoBody]
      [] net = "lost" ->
           [w |-> Server(w, req).w, raised |-> TRUE, json |-> NoBody]

\* upsert's local check: doc.id in _pushed_docs and _pushed_docs[doc.id] == content_hash
cache_hit(cache, doc) ==
    doc.id \in DOMAIN cache /\ cache[doc.id] = content_hash(doc)

\* upsert's request body; metadata only when the dict is not empty
upsert_data(doc) ==
    IF DOMAIN doc.metadata # {}
    THEN [content |-> doc.content, contentHash |-> content_hash(doc),
          metadata |-> doc.metadata]
    ELSE [content |-> doc.content, contentHash |-> content_hash(doc)]

\* UpsertResult
UpsertResult(document_id, chunks, action, message) ==
    [document_id |-> document_id, chunks |-> chunks, action |-> action,
     message |-> message]

\* a plausible bug: the cache is written before the remote call is confirmed
upsert_cache_first(w, doc, net) ==
    IF cache_hit(w.pushed_docs, doc)
    THEN [w |-> w, raised |-> FALSE, calls |-> 0, pushed |-> <<>>,
          result |-> <<UpsertResult(doc.id, 0, "unchanged",
                                    "Skipped (unchanged in local cache)")>>]
    ELSE LET marked == [w EXCEPT !.pushed_docs =
                                    DictSet(w.pushed_docs, doc.id, content_hash(doc))]
             r == request(marked,
                          [method |-> "PUT", path |-> "/api/v1/documents/{id}",
                           id |-> doc.id, json |-> upsert_data(doc)], net)
         IN IF r.raised
            THEN [w |-> r.w, raised |-> TRUE, calls |-> 1, pushed |-> <<>>,
                  result |-> <<>>]
            ELSE [w |-> r.w, raised |-> FALSE, calls |-> 1, pushed |-> <<doc>>,
                  result |-> <<UpsertResult(r.json.documentId, r.json.chunks,
                                            r.json.action, r.json.message)>>]

\* a plausible bug: the cache is never updated after a push
upsert_no_cache_update(w, doc, net) ==
    IF cache_hit(w.pushed_docs, doc)
    THEN [w |-> w, raised |-> FALSE, calls |-> 0, pushed |-> <<>>,
          result |-> <<UpsertResult(doc.id, 0, "unchanged",
                                    "Skipped (unchanged in local cache)")>>]
    ELSE LET r == request(w,
                          [method |-> "PUT", path |-> "/api/v1/documents/{id}",
                           id |-> doc.id, json |-> upsert_data(doc)], net)
         IN IF r.raised
            THEN [w |-> r.w, raised |-> TRUE, calls |-> 1, pushed |-> <<>>,
                  result |-> <<>>]
            ELSE [w |-> r.w, raised |-> FALSE, calls |-> 1, pushed |-> <<doc>>,
                  result |-> <<UpsertResult(r.json.documentId, r.json.chunks,
                                            r.json.action, r.json.message)>>]

\* a plausible bug: the action is inferred from the cache (created for an id the
\* cache did not hold, updated otherwise) instead of taken from the response
upsert_infers_action(w, doc, net) ==
    IF cache_hit(w.pushed_docs, doc)
    THEN [w |-> w, raised |-> FALSE, calls |-> 0, pushed |-> <<>>,
          result |-> <<UpsertResult(doc.id, 0, "unchanged",
                                    "Skipped (unchanged in local cache)")>>]
    ELSE LET r == request(w,
                          [method |-> "PUT", path |-> "/api/v1/documents/{id}",
                           id |-> doc.id, json |-> upsert_data(doc)], net)
         IN IF r.raised
            THEN [w |-> r.w, raised |-> TRUE, calls |-> 1, pushed |-> <<>>,
                  result |-> <<>>]
            ELSE [w |-> [r.w EXCEPT !.pushed_docs =
                                       DictSet(r.w.pushed_docs, doc.id, content_hash(doc))],
                  raised |-> FALSE, calls |-> 1, pushed |-> <<doc>>,
                  result |-> <<UpsertResult(r.json.documentId, r.json.chunks,
                                            IF doc.id \in DOMAIN w.pushed_docs
                                            THEN "updated" ELSE "created",
                                            r.json.message)>>]

\* RagBoxClient.upsert: the world it leaves, whether it raised, the UpsertResult
\* it returned (none when it raised), the remote calls it issued and, for the
\* history, the document when the store confirmed its push
upsert(w, doc, net) ==
    IF cache_hit(w.pushed_docs, doc)
    THEN [w |-> w, raised |-> FALSE, calls |-> 0, pushed |-> <<>>,
          result |-> <<UpsertResult(doc.id, 0, "unchanged",
                                    "Skipped (unchanged in local cache)")>>]
    ELSE LET r == request(w,
                          [method |-> "PUT", path |-> "/api/v1/documents/{id}",
                           id |-> doc.id, json |-> upsert_data(doc)], net)
         IN IF r.raised
            THEN [w |-> r.w, raised |-> TRUE, calls |-> 1, pushed |-> <<>>,
                  result |-> <<>>]
            ELSE [w |-> [r.w EXCEPT !.pushed_docs =
                                       DictSet(r.w.pushed_docs, doc.id, content_hash(doc))],
                  raised |-> FALSE, calls |-> 1, pushed |-> <<doc>>,
                  result |-> <<UpsertResult(r.json.documentId, r.json.chunks,
                                            r.json.action, r.json.message)>>]

\* a plausible bug: a document that occurs earlier in the batch is skipped, so the
\* list returned is shorter than the batch
RECURSIVE upsert_each_skips_duplicates(_, _, _, _, _)
upsert_each_skips_duplicates(w, docs, nets, i, acc) ==
    IF i > Len(docs)
    THEN [w |-> w, raised |-> FALSE, results |-> acc.results, calls |-> acc.calls,
          pushed |-> acc.pushed, attempted |-> Len(docs)]
    ELSE IF \E j \in 1..(i - 1) : docs[j] = docs[i]
    THEN upsert_each_skips_duplicates(w, docs, nets, i + 1, acc)
    ELSE LET r == upsert(w, docs[i], nets[i])
         IN IF r.raised
            THEN [w |-> r.w, raised |-> TRUE, results |-> <<>>,
                  calls |-> acc.calls + r.calls, pushed |-> acc.pushed,
                  attempted |-> i]
            ELSE upsert_each_skips_duplicates(r.w, docs, nets, i + 1,
                             [results |-> acc.results \o r.result,
                              calls |-> acc.calls + r.calls,
                              pushed |-> acc.pushed \o r.pushed])

\* the list comprehension of upsert_batch from document i on: an exception of
\* upsert(docs[i]) leaves the comprehension, and the list built so far is dropped
RECURSIVE upsert_each(_, _, _, _, _)
upsert_each(w, docs, nets, i, acc) ==
    IF i > Len(docs)
    THEN [w |-> w, raised |-> FALSE, results |-> acc.results, calls |-> acc.calls,
          pushed |-> acc.pushed, attempted |-> Len(docs)]
    ELSE LET r == upsert(w, docs[i], nets[i])
         IN IF r.raised
            THEN [w |-> r.w, raised |-> TRUE, results |-> <<>>,
                  calls |-> acc.calls + r.calls, pushed |-> acc.pushed,
                  attempted |-> i]
            ELSE upsert_each(r.w, docs, nets, i + 1,
                             [results |-> acc.results \o r.result,
                              calls |-> acc.calls + r.calls,
                              pushed |-> acc.pushed \o r.pushed])

\* RagBoxClient.upsert_batch
upsert_batch(w, docs, nets) ==
    upsert_each(w, docs, nets, 1, [results |-> <<>>, calls |-> 0, pushed |-> <<>>])

\* a plausible bug: the document is deleted remotely and stays in the cache
delete_keeps_cache(w, document_id, net) ==
    LET r == request(w, [method |-> "DELETE", path |-> "/api/v1/documents/{id}",
                         id |-> document_id, json |-> NoBody], net)
    IN [w |-> r.w, raised |-> r.raised, calls |-> 1]

\* a plausible bug: the cache entry is dropped before the remote delete is confirmed
delete_cache_first(w, document_id, net) ==
    LET popped == [w EXCEPT !.pushed_docs =
                      DictRestrict(w.pushed_docs, DOMAIN w.pushed_docs \ {document_id})]
        r == request(popped, [method |-> "DELETE", path |-> "/api/v1/documents/{id}",
                              id |-> document_id, json |-> NoBody], net)
    IN [w |-> r.w, raised |-> r.raised, calls |-> 1]

\* RagBoxClient.delete; _pushed_docs.pop(document_id, None) after the request
delete(w, document_id, net) ==
    LET r == request(w, [method |-> "DELETE", path |-> "/api/v1/documents/{id}",
                         id |-> document_id, json |-> NoBody], net)
    IN IF r.raised
       THEN [w |-> r.w, raised |-> TRUE, calls |-> 1]
       ELSE [w |-> [r.w EXCEPT !.pushed_docs =
                       DictRestrict(r.w.pushed_docs,
                                    DOMAIN r.w.pushed_docs \ {document_id})],
             raised |-> FALSE, calls |-> 1]

\* RagBoxClient.clear_all; _pushed_docs.clear() after the request
clear_all(w, net) ==
    LET r == request(w, [method |-> "DELETE", path |-> "/api/v1/documents",
                         id |-> "", json |-> NoBody], net)
    IN IF r.raised
       THEN [w |-> r.w, raised |-> TRUE, calls |-> 1]
       ELSE [w |-> [r.w EXCEPT !.pushed_docs = EmptyDict],
             raised |-> FALSE, calls |-> 1]

\* keep_ids=None, and keep_ids=ids
KeepNone == [given |-> FALSE, ids |-> <<>>]
Keep(ids) == [given |-> TRUE, ids |-> ids]

\* sync's request body: None, or {"keepDocumentIds": list(keep_ids)}
sync_data(keep_ids) ==
    IF keep_ids.given THEN [keepDocumentIds |-> keep_ids.ids] ELSE NoBody

\* a plausible bug: the cache is not intersected with the keep-set
sync_keeps_cache(w, keep_ids, net) ==
    LET r == request(w, [method |-> "POST", path |-> "/api/v1/sync",
                         id |-> "", json |-> sync_data(keep_ids)], net)
    IN [w |-> r.w, raised |-> r.raised, calls |-> 1, json |-> r.json]

\* a plausible bug: an omitted keep_ids is taken for an empty one locally
sync_none_as_empty(w, keep_ids, net) ==
    LET r == request(w, [method |-> "POST", path |-> "/api/v1/sync",
                         id |-> "", json |-> sync_data(keep_ids)], net)
    IN IF r.raised
       THEN [w |-> r.w, raised |-> TRUE, calls |-> 1, json |-> NoBody]
       ELSE [w |-> [r.w EXCEPT !.pushed_docs =
                       DictRestrict(r.w.pushed_docs, Range(keep_ids.ids))],
             raised |-> FALSE, calls |-> 1, json |-> r.json]

\* a plausible bug: the cache is intersected before the remote call is confirmed
sync_cache_first(w, keep_ids, net) ==
    LET kept == IF keep_ids.given
                THEN [w EXCEPT !.pushed_docs =
                         DictRestrict(w.pushed_docs, Range(keep_ids.ids))]
                ELSE w
        r == request(kept, [method |-> "POST", path |-> "/api/v1/sync",
                            id |-> "", json |-> sync_data(keep_ids)], net)
    IN [w |-> r.w, raised |-> r.raised, calls |-> 1, json |-> r.json]

\* a plausible bug: the loop over the cache stops at the first entry it removes,
\* so one call drops only one of the identifiers that keep_ids exclude
sync_drops_one(w, keep_ids, net) ==
    LET r == request(w, [method |-> "POST", path |-> "/api/v1/sync",
                         id |-> "", json |-> sync_data(keep_ids)], net)
        excluded == DOMAIN r.w.pushed_docs \ Range(keep_ids.ids)
    IN IF r.raised
       THEN [w |-> r.w, raised |-> TRUE, calls |-> 1, json |-> NoBody]
       ELSE [w |-> IF keep_ids.given /\ excluded # {}
                   THEN [r.w EXCEPT !.pushed_docs =
                            DictRestrict(r.w.pushed_docs,
                                         DOMAIN r.w.pushed_docs
                                           \ {CHOOSE id \in excluded : TRUE})]
                   ELSE r.w,
             raised |-> FALSE, calls |-> 1, json |-> r.json]

\* RagBoxClient.sync; the cache is intersected with set(keep_ids) after the
\* request, and only when keep_ids is not None
sync(w, keep_ids, net) ==
    LET r == request(w, [method |-> "POST", path |-> "/api/v1/sync",
                         id |-> "", json |-> sync_data(keep_ids)], net)
    IN IF r.raised
       THEN [w |-> r.w, raised |-> TRUE, calls |-> 1, json |-> NoBody]
       ELSE [w |-> IF keep_ids.given
                   THEN [r.w EXCEPT !.pushed_docs =
                            DictRestrict(r.w.pushed_docs, Range(keep_ids.ids))]
                   ELSE r.w,
             raised |-> FALSE, calls |-> 1, json |-> r.json]

\* a plausible bug: upload records the uploaded document in the cache
upload_caches(w, content, filename, metadata, net) ==
    LET r == request(w, [method |-> "POST", path |-> "/api/v1/documents", id |-> "",
                         json |-> IF DOMAIN metadata # {}
                                  THEN [content |-> content, filename |-> filename,
                                        metadata |-> metadata]
                                  ELSE [content |-> content, filename |-> filename]],
                     net)
    IN IF r.raised
       THEN [w |-> r.w, raised |-> TRUE, calls |-> 1, json |-> NoBody]
       ELSE [w |-> [r.w EXCEPT !.pushed_docs =
                       DictSet(r.w.pushed_docs, r.json.documentId,
                               sha256_hexdigest(content))],
             raised |-> FALSE, calls |-> 1, json |-> r.json]

\* RagBoxClient.upload (no collection given): the store assigns the identifier
upload(w, content, filename, metadata, net) ==
    LET r == request(w, [method |-> "POST", path |-> "/api/v1/documents", id |-> "",
                         json |-> IF DOMAIN metadata # {}
                                  THEN [content |-> content, filename |-> filename,
                                        metadata |-> metadata]
                                  ELSE [content |-> content, filename |-> filename]],
                     net)
    IN IF r.raised
       THEN [w |-> r.w, raised |-> TRUE, calls |-> 1, json |-> NoBody]
       ELSE [w |-> r.w, raised |-> FALSE, calls |-> 1, json |-> r.json]

\* the methods that only ask: HTTP method, path and body of their one request
ReadRequests ==
    [list_documents |-> [method |-> "GET", path |-> "/api/v1/documents", json |-> NoBody],
     query |-> [method |-> "POST", path |-> "/api/v1/query",
                json |-> [question |-> "what?"]],
     search |-> [method |-> "POST", path |-> "/api/v1/search",
                 json |-> [query |-> "what"]],
     sync_status |-> [method |-> "GET", path |-> "/api/v1/sync/status", json |-> NoBody],
     list_synced_documents |->
        [method |-> "GET", path |-> "/api/v1/sync/documents", json |-> NoBody],
     health |-> [method |-> "GET", path |-> "/health", json |-> NoBody],
     ready |-> [method |-> "GET", path |-> "/health/ready", json |-> NoBody],
     stats |-> [method |-> "GET", path |-> "/api/v1/stats", json |-> NoBody],
     config |-> [method |-> "GET", path |-> "/api/v1/config", json |-> NoBody],
     providers |-> [method |-> "GET", path |-> "/api/v1/config/providers",
                    json |-> NoBody]]
ReadMethods == DOMAIN ReadRequests

\* what such a method returns for a response
read_result(name, json) ==
    CASE name = "query" ->
           [answer |-> json.answer, contexts |-> json.contexts,
            prompt_tokens |-> "None", completion_tokens |-> "None",
            total_tokens |-> "None"]
      [] name = "search" -> [results |-> json.results, count |-> json.count]
      [] name = "sync_status" ->
           [last_sync_time |-> IF json.lastSyncTime = "never" THEN "None"
                               ELSE json.lastSyncTime,
            document_count |-> json.documentCount,
            chunk_count |-> json.chunkCount,
            pending_deletes |-> 0]
      [] name = "list_synced_documents" -> json.documentIds
      [] OTHER -> json

\* RagBoxClient.list_documents, query, search, sync_status,
\* list_synced_documents, health, ready, stats, config, providers
read_only(w, name, net) ==
    LET r == request(w, [method |-> ReadRequests[name].method,
                         path |-> ReadRequests[name].path, id |-> "",
                         json |-> ReadRequests[name].json], net)
    IN IF r.raised
       THEN [w |-> r.w, raised |-> TRUE, calls |-> 1, result |-> <<>>]
       ELSE [w |-> r.w, raised |-> FALSE, calls |-> 1,
             result |-> <<read_result(name, r.json)>>]

(***************************************************************************)
(* The state machine: one client, the only writer of the store.  Every     *)
(* action is one whole call of a client method.                            *)
(***************************************************************************)
\* what the store may hold when the client is constructed: under any identifier,
\* a document an earlier session left there
EarlierDocument == StoredDocument("alpha", sha256_hexdigest("alpha"), EmptyDict)
Stores == UNION {[S -> {EarlierDocument}] : S \in SUBSET Ids}

\* sequences of at most n elements of S
SeqsUpTo(S, n) == UNION {[1..k -> S] : k \in 0..n}

\* the arguments drawn for sync
KeepArgs == {KeepNone} \cup {Keep(ids) : ids \in SeqsUpTo(Ids, MaxKeep)}

\* the documents drawn for upsert_batch, and the batches
BatchDocuments ==
    {[id |-> "A", content |-> "alpha", metadata |-> EmptyMeta],
     [id |-> "B", content |-> "beta", metadata |-> [source |-> "wiki"]]}
Batches == SeqsUpTo(BatchDocuments, MaxBatch) \ {<<>>}

\* the transport's behaviour over a batch of n documents: nets[i] is what happens
\* to the remote call of the i-th document; at most one call does not succeed
OneFault(n, faults) ==
    {[i \in 1..n |-> "ok"]} \cup
    {[i \in 1..n |-> IF i = k THEN f ELSE "ok"] : k \in 1..n, f \in faults}

\* transport faults of the specification Spec: a failed call has no server-side effect
Faults == {"error"}

NoCall ==
    [op |-> "none", docs |-> <<>>, document_id |-> "", keep_ids |-> KeepNone,
     nets |-> <<>>, raised |-> FALSE, results |-> <<>>, prunedCount |-> -1,
     calls |-> 0, attempted |-> 0]

\* the history of confirmed pushes after the pushes of docs, in order
RECURSIVE Confirm(_, _)
Confirm(c, docs) ==
    IF docs = <<>> THEN c
    ELSE Confirm(DictSet(c, Head(docs).id, Head(docs).content), Tail(docs))

\* a call ends: the world w it leaves, and the history c of confirmed pushes
Commit(w, c) ==
    /\ pushed_docs' = w.pushed_docs
    /\ store' = w.store
    /\ lastSyncTime' = w.lastSyncTime
    /\ confirmed' = c
    /\ pre' = [pushed_docs |-> pushed_docs, store |-> store,
               lastSyncTime |-> lastSyncTime, confirmed |-> confirmed]
    /\ caller' = "main"
    /\ UNCHANGED <<peer_docs, peer_state, inflight, run>>

\* no second caller is inside a call of the client
NoneInFlight == [upsert |-> [pc |-> "idle"], sync |-> [pc |-> "idle"], order |-> <<>>]
\* the ingestion script is not running
NoRun == [pc |-> "none"]

Init ==
    /\ pushed_docs = EmptyDict
    /\ store \in Stores
    /\ lastSyncTime = "never"
    /\ confirmed = EmptyDict
    /\ last = NoCall
    /\ pre = [pushed_docs |-> EmptyDict, store |-> store, lastSyncTime |-> "never",
              confirmed |-> EmptyDict]
    /\ peer_docs = EmptyDict
    /\ peer_state = "none"
    /\ caller = "main"
    /\ inflight = NoneInFlight
    /\ run = NoRun

Upsert(doc, net) ==
    \E r \in {upsert(World, doc, net)} :
       /\ Commit(r.w, Confirm(confirmed, r.pushed))
       /\ last' = [NoCall EXCEPT !.op = "upsert", !.docs = <<doc>>, !.nets = <<net>>,
                                 !.raised = r.raised, !.results = r.result,
                                 !.calls = r.calls, !.attempted = 1]

UpsertBatch(docs, nets) ==
    \E r \in {upsert_batch(World, docs, nets)} :
       /\ Commit(r.w, Confirm(confirmed, r.pushed))
       /\ last' = [NoCall EXCEPT !.op = "upsert_batch", !.docs = docs, !.nets = nets,
                                 !.raised = r.raised, !.results = r.results,
                                 !.calls = r.calls, !.attempted = r.attempted]

Delete(document_id, net) ==
    \E r \in {delete(World, document_id, net)} :
       /\ Commit(r.w, IF r.raised THEN confirmed
                      ELSE DictRestrict(confirmed, DOMAIN confirmed \ {document_id}))
       /\ last' = [NoCall EXCEPT !.op = "delete", !.document_id = document_id,
                                 !.nets = <<net>>, !.raised = r.raised,
                                 !.calls = r.calls]

ClearAll(net) ==
    \E r \in {clear_all(World, net)} :
       /\ Commit(r.w, IF r.raised THEN confirmed ELSE EmptyDict)
       /\ last' = [NoCall EXCEPT !.op = "clear_all", !.nets = <<net>>,
                                 !.raised = r.raised, !.calls = r.calls]

Sync(keep_ids, net) ==
    \E r \in {sync(World, keep_ids, net)} :
       /\ Commit(r.w, IF r.raised \/ ~keep_ids.given THEN confirmed
                      ELSE DictRestrict(confirmed, Range(keep_ids.ids)))
       /\ last' = [NoCall EXCEPT !.op = "sync", !.keep_ids = keep_ids,
                                 !.nets = <<net>>, !.raised = r.raised,
                                 !.calls = r.calls,
                                 !.prunedCount = IF r.raised THEN -1
                                                 ELSE r.json.prunedCount]

Next ==
    \/ \E doc \in Document, net \in {"ok"} \cup Faults : Upsert(doc, net)
    \/ \E docs \in Batches : \E nets \in OneFault(Len(docs), Faults) :
          UpsertBatch(docs, nets)
    \/ \E document_id \in Ids, net \in {"ok"} \cup Faults : Delete(document_id, net)
    \/ \E net \in {"ok"} \cup Faults : ClearAll(net)
    \/ \E keep_ids \in KeepArgs, net \in {"ok"} \cup Faults : Sync(keep_ids, net)

Spec == Init /\ [][Next]_vars

\* The same client when a call may also time out at the client after the store
\* has applied it ("lost"); the client is the only writer of the store.
NextTimeout ==
    \/ \E doc \in Document, net \in Nets : Upsert(doc, net)
    \/ \E document_id \in Ids, net \in Nets : Delete(document_id, net)
    \/ \E net \in Nets : ClearAll(net)
    \/ \E keep_ids \in KeepArgs, net \in Nets : Sync(keep_ids, net)

SpecTimeout == Init /\ [][NextTimeout]_vars

\* A document is deleted from the store out of band (by hand, or by a client
\* other than this one): the store loses it and this client's cache is not told.
OutOfBandDelete(document_id) ==
    /\ document_id \in DOMAIN store
    /\ Commit([World EXCEPT !.store = DictRestrict(store, DOMAIN store \ {document_id})],
              confirmed)
    /\ last' = [NoCall EXCEPT !.op = "out_of_band_delete", !.document_id = document_id]

NextDrift ==
    \/ \E doc \in Document, net \in {"ok"} \cup Faults : Upsert(doc, net)
    \/ \E document_id \in Ids, net \in {"ok"} \cup Faults : Delete(document_id, net)
    \/ \E net \in {"ok"} \cup Faults : ClearAll(net)
    \/ \E keep_ids \in KeepArgs, net \in {"ok"} \cup Faults : Sync(keep_ids, net)
    \/ \E document_id \in Ids : OutOfBandDelete(document_id)

SpecDrift == Init /\ [][NextDrift]_vars

\* The client with its calls that do not take part in the synchronisation: upload
\* and the methods that only ask.
Upload(content, metadata, net) ==
    /\ Cardinality(DOMAIN store \cap Uuids) < MaxUploads
    /\ \E r \in {upload(World, content, "notes.txt", metadata, net)} :
          /\ Commit(r.w, confirmed)
          /\ last' = [NoCall EXCEPT !.op = "upload", !.nets = <<net>>,
                                    !.docs = <<[id |-> "", content |-> content,
                                                metadata |-> metadata]>>,
                                    !.raised = r.raised, !.calls = r.calls,
                                    !.results = IF r.raised THEN <<>> ELSE <<r.json>>]

ReadOnly(name, net) ==
    \E r \in {read_only(World, name, net)} :
       /\ Commit(r.w, confirmed)
       /\ last' = [NoCall EXCEPT !.op = name, !.nets = <<net>>, !.raised = r.raised,
                                 !.calls = r.calls, !.results = r.result]

NextFrame ==
    \/ \E doc \in Document, net \in {"ok"} \cup Faults : Upsert(doc, net)
    \/ \E document_id \in Ids, net \in {"ok"} \cup Faults : Delete(document_id, net)
    \/ \E content \in Contents, metadata \in Metas, net \in {"ok"} \cup Faults :
          Upload(content, metadata, net)
    \/ \E name \in ReadMethods, net \in {"ok"} \cup Faults : ReadOnly(name, net)

SpecFrame == Init /\ [][NextFrame]_vars

\* Two clients of the same store.  __init__ gives every instance a dict of its
\* own (self._pushed_docs = {}): cache_owner names the client whose dict a
\* client's methods read and write.
cache_owner_class_attribute(client) == "main"

cache_owner(client) == client

CacheOf(client) == IF cache_owner(client) = "main" THEN pushed_docs ELSE peer_docs

\* documents the two clients push in this setting
PeerDocuments == {doc \in Document : doc.content = "alpha" /\ doc.metadata = EmptyMeta}

\* RagBoxClient(base_url) is called a second time
NewClient ==
    /\ peer_state = "none"
    /\ peer_state' = "fresh"
    /\ peer_docs' = IF cache_owner("peer") = "peer" THEN EmptyDict ELSE peer_docs
    /\ caller' = "peer"
    /\ last' = [NoCall EXCEPT !.op = "__init__"]
    /\ pre' = [pushed_docs |-> pushed_docs, store |-> store,
               lastSyncTime |-> lastSyncTime, confirmed |-> confirmed]
    /\ UNCHANGED <<pushed_docs, store, lastSyncTime, confirmed, inflight, run>>

PeerWorld ==
    [pushed_docs |-> CacheOf("peer"), store |-> store, lastSyncTime |-> lastSyncTime]

\* a call of the second client ends, leaving the world w
PeerCommit(w) ==
    /\ IF cache_owner("peer") = "main"
       THEN pushed_docs' = w.pushed_docs /\ peer_docs' = peer_docs
       ELSE peer_docs' = w.pushed_docs /\ pushed_docs' = pushed_docs
    /\ store' = w.store
    /\ lastSyncTime' = w.lastSyncTime
    /\ pre' = [pushed_docs |-> pushed_docs, store |-> store,
               lastSyncTime |-> lastSyncTime, confirmed |-> confirmed]
    /\ caller' = "peer"
    /\ peer_state' = "used"
    /\ UNCHANGED <<confirmed, inflight, run>>

PeerUpsert(doc, net) ==
    /\ peer_state # "none"
    /\ \E r \in {upsert(PeerWorld, doc, net)} :
          /\ PeerCommit(r.w)
          /\ last' = [NoCall EXCEPT !.op = "upsert", !.docs = <<doc>>, !.nets = <<net>>,
                                    !.raised = r.raised, !.results = r.result,
                                    !.calls = r.calls, !.attempted = 1]

PeerDelete(document_id, net) ==
    /\ peer_state # "none"
    /\ \E r \in {delete(PeerWorld, document_id, net)} :
          /\ PeerCommit(r.w)
          /\ last' = [NoCall EXCEPT !.op = "delete", !.document_id = document_id,
                                    !.nets = <<net>>, !.raised = r.raised,
                                    !.calls = r.calls]

PeerClearAll(net) ==
    /\ peer_state # "none"
    /\ \E r \in {clear_all(PeerWorld, net)} :
          /\ PeerCommit(r.w)
          /\ last' = [NoCall EXCEPT !.op = "clear_all", !.nets = <<net>>,
                                    !.raised = r.raised, !.calls = r.calls]

PeerSync(keep_ids, net) ==
    /\ peer_state # "none"
    /\ \E r \in {sync(PeerWorld, keep_ids, net)} :
          /\ PeerCommit(r.w)
          /\ last' = [NoCall EXCEPT !.op = "sync", !.keep_ids = keep_ids,
                                    !.nets = <<net>>, !.raised = r.raised,
                                    !.calls = r.calls,
                                    !.prunedCount = IF r.raised THEN -1
                                                    ELSE r.json.prunedCount]

NextTwoClients ==
    \/ \E doc \in PeerDocuments, net \in {"ok"} \cup Faults : Upsert(doc, net)
    \/ \E document_id \in Ids, net \in {"ok"} \cup Faults : Delete(document_id, net)
    \/ \E net \in {"ok"} \cup Faults : ClearAll(net)
    \/ \E keep_ids \in KeepArgs, net \in {"ok"} \cup Faults : Sync(keep_ids, net)
    \/ NewClient
    \/ \E doc \in PeerDocuments, net \in {"ok"} \cup Faults : PeerUpsert(doc, net)
    \/ \E document_id \in Ids, net \in {"ok"} \cup Faults : PeerDelete(document_id, net)
    \/ \E net \in {"ok"} \cup Faults : PeerClearAll(net)
    \/ \E keep_ids \in KeepArgs, net \in {"ok"} \cup Faults : PeerSync(keep_ids, net)

SpecTwoClients == Init /\ [][NextTwoClients]_vars

\* Two callers share one client, which has no locking: one calls upsert, the
\* other sync, once each.  A call is split where the other caller can run in
\* between: upsert into its cache check, its remote call and its cache write,
\* sync into its remote call, the building of the filtered dict and the
\* assignment of that dict to _pushed_docs.

\* a plausible bug: upsert's `self._pushed_docs[doc.id] = content_hash` is left out
upsert_write_skipped(cache, doc) == cache

\* upsert's `self._pushed_docs[doc.id] = content_hash`
upsert_write(cache, doc) == DictSet(cache, doc.id, content_hash(doc))

\* sync's `{k: v for k, v in self._pushed_docs.items() if k in keep_set}`
sync_filter(cache, keep_ids) == DictRestrict(cache, Range(keep_ids.ids))

\* the caches a client can hold for a store: fingerprints of documents it pushed
CachesFor(st) ==
    {[id \in S |-> st[id].contentHash] : S \in SUBSET DOMAIN st}

InitRace ==
    /\ store \in Stores
    /\ pushed_docs \in CachesFor(store)
    /\ lastSyncTime = "never"
    /\ confirmed = [id \in DOMAIN pushed_docs |-> store[id].content]
    /\ last = NoCall
    /\ pre = [pushed_docs |-> pushed_docs, store |-> store, lastSyncTime |-> "never",
              confirmed |-> confirmed]
    /\ peer_docs = EmptyDict
    /\ peer_state = "none"
    /\ caller = "main"
    /\ inflight = NoneInFlight
    /\ run = NoRun

RaceFrame == UNCHANGED <<confirmed, last, pre, peer_docs, peer_state, caller, run>>

\* upsert up to its cache check: it returns at once on a hit
UpsertCheck(doc) ==
    /\ inflight.upsert.pc = "idle"
    /\ inflight' =
         [inflight EXCEPT
            !.upsert = IF cache_hit(pushed_docs, doc)
                       THEN [pc |-> "done", doc |-> doc, raised |-> FALSE,
                             action |-> "unchanged", calls |-> 0]
                       ELSE [pc |-> "request", doc |-> doc],
            !.order = Append(@, "upsert.check")]
    /\ UNCHANGED <<pushed_docs, store, lastSyncTime>>
    /\ RaceFrame

\* upsert's remote call
UpsertRequest(net) ==
    /\ inflight.upsert.pc = "request"
    /\ \E r \in {request(World, [method |-> "PUT", path |-> "/api/v1/documents/{id}",
                                 id |-> inflight.upsert.doc.id,
                                 json |-> upsert_data(inflight.upsert.doc)], net)} :
          /\ store' = r.w.store
          /\ inflight' =
               [inflight EXCEPT
                  !.upsert = IF r.raised
                             THEN [pc |-> "done", doc |-> @.doc, raised |-> TRUE,
                                   action |-> "", calls |-> 1]
                             ELSE [pc |-> "write", doc |-> @.doc,
                                   action |-> r.json.action],
                  !.order = Append(@, "upsert.request")]
    /\ UNCHANGED <<pushed_docs, lastSyncTime>>
    /\ RaceFrame

\* upsert's cache write and return
UpsertWrite ==
    /\ inflight.upsert.pc = "write"
    /\ pushed_docs' = upsert_write(pushed_docs, inflight.upsert.doc)
    /\ inflight' =
         [inflight EXCEPT
            !.upsert = [pc |-> "done", doc |-> @.doc, raised |-> FALSE,
                        action |-> @.action, calls |-> 1],
            !.order = Append(@, "upsert.write")]
    /\ UNCHANGED <<store, lastSyncTime>>
    /\ RaceFrame

\* sync's remote call; without keep_ids sync returns after it
SyncRequest(keep_ids, net) ==
    /\ inflight.sync.pc = "idle"
    /\ \E r \in {request(World, [method |-> "POST", path |-> "/api/v1/sync",
                                 id |-> "", json |-> sync_data(keep_ids)], net)} :
          /\ store' = r.w.store
          /\ lastSyncTime' = r.w.lastSyncTime
          /\ inflight' =
               [inflight EXCEPT
                  !.sync = IF r.raised
                           THEN [pc |-> "done", keep_ids |-> keep_ids, raised |-> TRUE,
                                 prunedCount |-> -1]
                           ELSE [pc |-> IF keep_ids.given THEN "filter" ELSE "done",
                                 keep_ids |-> keep_ids, raised |-> FALSE,
                                 prunedCount |-> r.json.prunedCount],
                  !.order = Append(@, "sync.request")]
    /\ UNCHANGED pushed_docs
    /\ RaceFrame

\* sync builds the filtered dict from the cache as it is now
SyncFilter ==
    /\ inflight.sync.pc = "filter"
    /\ inflight' =
         [inflight EXCEPT
            !.sync = [pc |-> "assign", keep_ids |-> @.keep_ids, raised |-> FALSE,
                      prunedCount |-> @.prunedCount,
                      filtered |-> sync_filter(pushed_docs, @.keep_ids)],
            !.order = Append(@, "sync.filter")]
    /\ UNCHANGED <<pushed_docs, store, lastSyncTime>>
    /\ RaceFrame

\* sync assigns the filtered dict to _pushed_docs and returns
SyncAssign ==
    /\ inflight.sync.pc = "assign"
    /\ pushed_docs' = inflight.sync.filtered
    /\ inflight' =
         [inflight EXCEPT
            !.sync = [pc |-> "done", keep_ids |-> @.keep_ids, raised |-> FALSE,
                      prunedCount |-> @.prunedCount],
            !.order = Append(@, "sync.assign")]
    /\ UNCHANGED <<store, lastSyncTime>>
    /\ RaceFrame

NextRace ==
    \/ \E doc \in Document : UpsertCheck(doc)
    \/ \E net \in {"ok"} \cup Faults : UpsertRequest(net)
    \/ UpsertWrite
    \/ \E keep_ids \in KeepArgs, net \in {"ok"} \cup Faults : SyncRequest(keep_ids, net)
    \/ SyncFilter
    \/ SyncAssign

SpecRace == InitRace /\ [][NextRace]_vars

\* examples/ingest_directory.py: one run of main() over a directory, against a
\* store that an earlier run has filled.  A step is the health check, one
\* iteration of the ingestion loop, the pruning sync or the final status call.

\* the files the glob can find, by path relative to the directory
Paths == {"a.md", "sub/b.md"}

\* str(relative_path).replace('/', '_').replace('\\', '_')
doc_id_of(path) ==
    CASE path = "a.md" -> "a.md"
      [] path = "sub/b.md" -> "sub_b.md"

\* file_path.name
filename_of(path) ==
    CASE path = "a.md" -> "a.md"
      [] path = "sub/b.md" -> "b.md"

\* file_to_document
file_to_document(file) ==
    [id |-> doc_id_of(file.path), content |-> file.content,
     metadata |-> [filename |-> filename_of(file.path), path |-> file.path,
                   extension |-> ".md"]]

\* the directories of a run: the files found, in the order the glob yields them
Directories ==
    {<<>>} \cup
    {<<[path |-> "a.md", content |-> c]>> : c \in Contents} \cup
    {<<[path |-> "sub/b.md", content |-> c]>> : c \in Contents} \cup
    {<<[path |-> "a.md", content |-> c], [path |-> "sub/b.md", content |-> d]>> :
        c \in Contents, d \in Contents}

\* what earlier runs left in the store: documents of the files above and of a
\* file that has been deleted since
IngestedIds == {"a.md", "sub_b.md", "old.md"}
IngestedStores == UNION {[S -> {EarlierDocument}] : S \in SUBSET IngestedIds}

IngestFrame == UNCHANGED <<confirmed, last, pre, peer_docs, peer_state, caller, inflight>>

InitIngest ==
    /\ pushed_docs = EmptyDict
    /\ store \in IngestedStores
    /\ lastSyncTime = "never"
    /\ confirmed = EmptyDict
    /\ last = NoCall
    /\ pre = [pushed_docs |-> EmptyDict, store |-> store, lastSyncTime |-> "never",
              confirmed |-> EmptyDict]
    /\ peer_docs = EmptyDict
    /\ peer_state = "none"
    /\ caller = "main"
    /\ inflight = NoneInFlight
    /\ \E files \in Directories, no_prune \in BOOLEAN :
          run = [pc |-> IF files = <<>> THEN "exit" ELSE "health",
                 files |-> files, no_prune |-> no_prune, earlier |-> store,
                 i |-> 1, doc_ids |-> <<>>,
                 stats |-> [created |-> 0, updated |-> 0, unchanged |-> 0,
                            failed |-> 0],
                 pruned |-> -1]

\* client.health(): the script exits when it raises
IngestHealth(net) ==
    /\ run.pc = "health"
    /\ \E r \in {read_only(World, "health", net)} :
          run' = [run EXCEPT !.pc = IF r.raised THEN "exit" ELSE "ingest"]
    /\ UNCHANGED <<pushed_docs, store, lastSyncTime>>
    /\ IngestFrame

\* one iteration of `for file_path in files`: the identifier is appended to
\* doc_ids after client.upsert has returned; an exception is caught and counted
IngestFile(net) ==
    /\ run.pc = "ingest"
    /\ \E doc \in {file_to_document(run.files[run.i])} :
       \E r \in {upsert(World, doc, net)} :
          /\ pushed_docs' = r.w.pushed_docs
          /\ store' = r.w.store
          /\ lastSyncTime' = r.w.lastSyncTime
          /\ run' = [run EXCEPT
                       !.doc_ids = IF r.raised THEN @ ELSE Append(@, doc.id),
                       !.stats = IF r.raised
                                 THEN [@ EXCEPT !.failed = @ + 1]
                                 ELSE [@ EXCEPT ![r.result[1].action] = @ + 1],
                       !.i = @ + 1,
                       !.pc = IF run.i < Len(run.files) THEN "ingest"
                              ELSE IF run.no_prune THEN "status" ELSE "prune"]
    /\ IngestFrame

\* client.sync(keep_ids=doc_ids); an exception ends the script
IngestPrune(net) ==
    /\ run.pc = "prune"
    /\ \E r \in {sync(World, Keep(run.doc_ids), net)} :
          /\ pushed_docs' = r.w.pushed_docs
          /\ store' = r.w.store
          /\ lastSyncTime' = r.w.lastSyncTime
          /\ run' = [run EXCEPT !.pc = IF r.raised THEN "crashed" ELSE "status",
                                !.pruned = IF r.raised THEN -1 ELSE r.json.prunedCount]
    /\ IngestFrame

\* client.sync_status(); an exception ends the script
IngestStatus(net) ==
    /\ run.pc = "status"
    /\ \E r \in {read_only(World, "sync_status", net)} :
          run' = [run EXCEPT !.pc = IF r.raised THEN "crashed" ELSE "done"]
    /\ UNCHANGED <<pushed_docs, store, lastSyncTime>>
    /\ IngestFrame

NextIngest ==
    \/ \E net \in {"ok"} \cup Faults : IngestHealth(net)
    \/ \E net \in {"ok"} \cup Faults : IngestFile(net)
    \/ \E net \in {"ok"} \cup Faults : IngestPrune(net)
    \/ \E net \in {"ok"} \cup Faults : IngestStatus(net)

SpecIngest == InitIngest /\ [][NextIngest]_vars

(***************************************************************************)
(* Properties.                                                             *)
(***************************************************************************)

\* C1 (idempotent no-op): when upsert is called with an id and a content whose
\* push the store confirmed earlier in the session, with no confirmed delete,
\* clear_all or sync excluding the id since, the call returns `unchanged` with
\* chunks 0 and issues no remote call.
C1_IdempotentNoOp ==
    (/\ last.op = "upsert"
     /\ last.docs[1].id \in DOMAIN pre.confirmed
     /\ pre.confirmed[last.docs[1].id] = last.docs[1].content)
    => /\ ~last.raised
       /\ last.results[1].action = "unchanged"
       /\ last.results[1].chunks = 0
       /\ last.results[1].document_id = last.docs[1].id
       /\ last.calls = 0

\* C1's case: a second upsert of a pushed document, here under a transport
\* that would have failed the call had one been issued
C1_Witness ==
    /\ last.op = "upsert"
    /\ last.docs[1].id \in DOMAIN pre.confirmed
    /\ pre.confirmed[last.docs[1].id] = last.docs[1].content
    /\ last.nets[1] = "error"
    /\ last.results[1].action = "unchanged"

\* C2 (reconciliation prunes exactly the complement): after a successful
\* sync(K), K given (the empty K included), the store holds exactly its previous
\* documents whose id is in K, prunedCount is the number of previous documents
\* whose id is not in K, and the cache holds exactly its previous entries whose
\* id is in K, each with its previous fingerprint.
C2_SyncPrunesComplement ==
    (last.op = "sync" /\ ~last.raised /\ last.keep_ids.given)
    => LET K == Range(last.keep_ids.ids)
       IN /\ DOMAIN store = DOMAIN pre.store \cap K
          /\ \A id \in DOMAIN store : store[id] = pre.store[id]
          /\ last.prunedCount = Cardinality(DOMAIN pre.store \ K)
          /\ DOMAIN pushed_docs = DOMAIN pre.pushed_docs \cap K
          /\ \A id \in DOMAIN pushed_docs : pushed_docs[id] = pre.pushed_docs[id]

\* C2's case: a sync that prunes one of two cached documents and keeps the other
C2_Witness ==
    /\ last.op = "sync" /\ ~last.raised /\ last.keep_ids.given
    /\ DOMAIN pre.store = Ids
    /\ DOMAIN pre.pushed_docs = Ids
    /\ last.prunedCount = 1
    /\ Cardinality(DOMAIN pushed_docs) = 1
    /\ DOMAIN store = DOMAIN pushed_docs

\* C3 (failure leaves the cache untouched on upsert): when the remote call of
\* upsert fails, upsert raises and the cache is what it was before the call.
C3_UpsertFailureKeepsCache ==
    (last.op = "upsert" /\ last.calls = 1 /\ last.nets[1] # "ok")
    => /\ last.raised
       /\ last.results = <<>>
       /\ pushed_docs = pre.pushed_docs

\* C3's case: a failed push of new content for a cached id, and of an uncached id
C3_Witness ==
    /\ last.op = "upsert" /\ last.raised
    /\ last.docs[1].id \in DOMAIN pre.pushed_docs
    /\ pre.pushed_docs[last.docs[1].id] # content_hash(last.docs[1])
    /\ DOMAIN pre.pushed_docs # Ids

\* C4 (batch ordering and partial failure), as claimed: when the remote upsert
\* of one document of a batch fails and documents follow it, upsert_batch still
\* attempts them, returns one entry per input document, and the documents whose
\* call did not fail have their cache entries updated.
C4_BatchContinuesAfterFailure ==
    (/\ last.op = "upsert_batch"
     /\ \E k \in 1..(Len(last.docs) - 1) : last.nets[k] # "ok")
    => /\ last.attempted = Len(last.docs)
       /\ Len(last.results) = Len(last.docs)
       /\ \A i \in 1..Len(last.docs) :
             last.nets[i] = "ok"
             => /\ last.docs[i].id \in DOMAIN pushed_docs
                /\ pushed_docs[last.docs[i].id] = content_hash(last.docs[i])

\* C5 (delete-then-upsert): after a confirmed push of X and then a successful
\* delete(X), the next call, an upsert of X with the content it had, issues a
\* remote upsert, and when that call succeeds the store answers `created`.
C5_DeleteThenUpsert ==
    [][(/\ last.op = "delete" /\ ~last.raised
        /\ last.document_id \in DOMAIN pre.confirmed
        /\ last'.op = "upsert"
        /\ last'.docs[1].id = last.document_id
        /\ last'.docs[1].content = pre.confirmed[last.document_id])
       => /\ last'.calls = 1
          /\ last'.nets[1] = "ok"
             => /\ ~last'.raised
                /\ last'.results[1].action = "created"
                /\ last'.results[1].action # "unchanged"]_vars

\* C5's case: X was pushed, and delete(X) has just succeeded
C5_Witness ==
    /\ last.op = "delete" /\ ~last.raised
    /\ last.document_id \in DOMAIN pre.confirmed
    /\ last.document_id \in DOMAIN pre.pushed_docs
    /\ last.document_id \in DOMAIN pre.store

C7_SyncNoneIsNoOp ==
    (last.op = "sync" /\ ~last.raised /\ ~last.keep_ids.given)
    => /\ store = pre.store
       /\ last.prunedCount = 0
       /\ documentCount(store) = documentCount(pre.store)
       /\ chunkCount(store) = chunkCount(pre.store)
       /\ pushed_docs = pre.pushed_docs

\* C7's case: a sync without keep_ids over a store and a cache that hold
\* documents; the last-sync timestamp is the one thing that changed
C7_Witness ==
    /\ last.op = "sync" /\ ~last.raised /\ ~last.keep_ids.given
    /\ DOMAIN pre.pushed_docs = Ids
    /\ DOMAIN pushed_docs = Ids
    /\ chunkCount(store) = 3
    /\ pre.lastSyncTime = "never" /\ lastSyncTime = "stamped"

\* C8 (the cache is a subset of server truth): every entry (id, fingerprint) of
\* the cache is a document the store holds under id with that content fingerprint.
C8_CacheSubsetOfStore ==
    \A id \in DOMAIN pushed_docs :
        /\ id \in DOMAIN store
        /\ store[id].contentHash = pushed_docs[id]
        /\ sha256_hexdigest(store[id].content) = pushed_docs[id]

\* C8's case: the cache holds an entry after a delete of another identifier
C8_Witness ==
    /\ last.op = "delete" /\ ~last.raised
    /\ DOMAIN pre.pushed_docs = Ids
    /\ Cardinality(DOMAIN pushed_docs) = 1
    /\ lastSyncTime = "stamped"

\* C9 (confirm-then-mutate for delete and clear_all): delete(X) and clear_all
\* succeed exactly when their remote call does; a successful delete(X) removes
\* the entry of X and no other (none when X is not cached), a successful
\* clear_all empties the cache, and a failed one leaves the cache as it was.
C9_ConfirmThenMutate ==
    /\ last.op \in {"delete", "clear_all"}
       => /\ last.calls = 1
          /\ last.raised <=> last.nets[1] # "ok"
          /\ last.raised => pushed_docs = pre.pushed_docs
    /\ (last.op = "delete" /\ ~last.raised)
       => /\ DOMAIN pushed_docs = DOMAIN pre.pushed_docs \ {last.document_id}
          /\ \A id \in DOMAIN pushed_docs : pushed_docs[id] = pre.pushed_docs[id]
    /\ (last.op = "clear_all" /\ ~last.raised) => pushed_docs = EmptyDict

\* C9's case: a delete of a cached identifier has failed
C9_Witness ==
    /\ last.op = "delete" /\ last.raised
    /\ last.document_id \in DOMAIN pre.pushed_docs
    /\ DOMAIN pushed_docs = Ids

\* C10 (failed reconciliation leaves the cache unmodified): when the remote call
\* of sync fails, whatever keep_ids is, sync raises and the cache is what it was
\* before the call.
C10_SyncFailureKeepsCache ==
    (last.op = "sync" /\ last.nets[1] # "ok")
    => /\ last.raised
       /\ last.calls = 1
       /\ pushed_docs = pre.pushed_docs

\* C10's case: a failed sync whose keep_ids exclude a cached identifier
C10_Witness ==
    /\ last.op = "sync" /\ last.raised /\ last.keep_ids.given
    /\ DOMAIN pre.pushed_docs = Ids
    /\ Range(last.keep_ids.ids) = {"A"}

\* C11 (the ingestion example prunes only documents of deleted files): with
\* pruning enabled, once the final sync has succeeded, the keep-set it sent holds
\* the identifier of every file found in the directory during the run, also of
\* a file whose upsert failed in this run, so that every document an earlier run
\* stored for a file still present is still in the store.
C11_PruneOnlyDeletedFiles ==
    (~run.no_prune /\ run.pc \in {"status", "done"})
    => LET found == {doc_id_of(run.files[k].path) : k \in DOMAIN run.files}
       IN /\ found \subseteq Range(run.doc_ids)
          /\ \A id \in DOMAIN run.earlier : id \in found => id \in DOMAIN store

\* C12 (each client owns its cache): with two clients of the same store, no
\* call made on one of them (upsert, delete, clear_all, sync; succeeding or
\* failing) changes the cache of the other, whatever it does to the store; and a
\* freshly constructed client has an empty cache, so its first upsert of any
\* identifier contacts the store, also when the other client has that identifier
\* cached with the same content.
C12_EachClientOwnsItsCache ==
    [][/\ (caller' = "peer" /\ last'.op # "__init__") => pushed_docs' = pushed_docs
       /\ caller' = "main" => peer_docs' = peer_docs
       /\ peer_state' = "fresh" => peer_docs' = EmptyDict
       /\ (peer_state = "fresh" /\ caller' = "peer" /\ last'.op = "upsert")
          => last'.calls = 1]_vars

\* C12's case: the second client has cleared the store that held both documents
\* of the first client; the first client's cache still holds both entries
C12_Witness ==
    /\ caller = "peer" /\ last.op = "clear_all" /\ ~last.raised
    /\ DOMAIN pushed_docs = Ids
    /\ DOMAIN pre.store = Ids
    /\ store = EmptyDict
    /\ peer_docs = EmptyDict

\* the cache holds X although the store no longer holds a document under X
Drift(X) == X \in DOMAIN pushed_docs /\ X \notin DOMAIN store

\* the step is an upsert of X with the content whose fingerprint the cache held
UpsertOfCached(X) ==
    /\ last'.op = "upsert"
    /\ last'.docs[1].id = X
    /\ X \in DOMAIN pushed_docs
    /\ sha256_hexdigest(last'.docs[1].content) = pushed_docs[X]

\* C13 as stated (drift detection): when a cached document X has been deleted
\* from the store out of band, then after a successful sync whose keep-set
\* contains X, or after a failed operation, an upsert of X with the cached
\* content contacts the store instead of returning `unchanged`.
C13_DriftDetectedAfterSyncOrFailure ==
    [][\A X \in Ids :
         (/\ Drift(X)
          /\ \/ last.op = "sync" /\ ~last.raised /\ last.keep_ids.given
                /\ X \in Range(last.keep_ids.ids)
             \/ last.raised
          /\ UpsertOfCached(X))
         => last'.calls = 1]_vars

\* C13 amended: the drift stays undetected for as long as the cache entry of X
\* stays: after a successful sync whose keep-set contains X (or a sync without
\* keep-set), or after a failed operation, an upsert of X with the cached content
\* still returns `unchanged` without contacting the store, which still lacks X;
\* only after a successful delete(X), clear_all or sync whose keep-set excludes
\* X does the next upsert of X contact the store.
C13_DriftStaysUntilEntryRemoved ==
    [][\A X \in Ids :
         /\ (/\ Drift(X)
             /\ \/ last.op = "sync" /\ ~last.raised
                   /\ (last.keep_ids.given => X \in Range(last.keep_ids.ids))
                \/ last.raised
             /\ UpsertOfCached(X))
            => /\ last'.calls = 0 /\ ~last'.raised
               /\ last'.results[1].action = "unchanged"
               /\ X \notin DOMAIN store'
         /\ (/\ X \in DOMAIN pre.pushed_docs /\ X \notin DOMAIN pre.store
             /\ ~last.raised
             /\ \/ last.op = "delete" /\ last.document_id = X
                \/ last.op = "clear_all"
                \/ last.op = "sync" /\ last.keep_ids.given
                   /\ X \notin Range(last.keep_ids.ids)
             /\ last'.op = "upsert" /\ last'.docs[1].id = X)
            => /\ last'.calls = 1
               /\ ~last'.raised => X \in DOMAIN store']_vars

\* C13's case: after an out-of-band deletion and a later sync, an upsert of the
\* cached content has returned `unchanged` although the store lacks the document
C13_Witness ==
    /\ last.op = "upsert" /\ ~last.raised /\ last.calls = 0
    /\ last.results[1].action = "unchanged"
    /\ last.docs[1].id \notin DOMAIN store
    /\ lastSyncTime = "stamped"

\* the order of steps in which the whole of a successful sync falls between an
\* upsert's remote call and its cache write
RaceOrder ==
    <<"upsert.check", "upsert.request", "sync.request", "sync.filter", "sync.assign",
      "upsert.write">>

\* the orders of steps in which two completed calls do not overlap
SerialOrders ==
    {<<"upsert.check", "upsert.request", "upsert.write", "sync.request", "sync.filter",
       "sync.assign">>,
     <<"sync.request", "sync.filter", "sync.assign", "upsert.check", "upsert.request",
       "upsert.write">>}

\* C14 (unprotected race between upsert and sync): with two callers on one
\* client and the remote call and the cache write of each operation as separate
\* steps, whenever a successful sync whose keep-set excludes X runs between the
\* remote call of an upsert of X and that upsert's cache write, the cache
\* afterwards holds X with the pushed fingerprint although the keep-set excluded
\* X and the store pruned it; when the same two calls do not overlap, every
\* cache entry afterwards is a document the store holds.
C14_RaceLeavesPrunedDocumentCached ==
    /\ (/\ inflight.order = RaceOrder
        /\ inflight.upsert.doc.id \notin Range(inflight.sync.keep_ids.ids))
       => LET X == inflight.upsert.doc.id
          IN /\ X \in DOMAIN pushed_docs
             /\ pushed_docs[X] = sha256_hexdigest(inflight.upsert.doc.content)
             /\ X \notin DOMAIN store
             /\ inflight.sync.prunedCount >= 1
    /\ inflight.order \in SerialOrders
       => \A id \in DOMAIN pushed_docs :
             /\ id \in DOMAIN store
             /\ store[id].contentHash = pushed_docs[id]

\* C14's case: both calls have returned, the sync (keep-set without A) having run
\* between the upsert's remote call for A and its cache write; the cache holds A,
\* the store does not
C14_Witness ==
    /\ inflight.order = RaceOrder
    /\ inflight.upsert.pc = "done" /\ inflight.sync.pc = "done"
    /\ inflight.upsert.doc.id = "A"
    /\ inflight.sync.keep_ids.given
    /\ "A" \notin Range(inflight.sync.keep_ids.ids)
    /\ "A" \in DOMAIN pushed_docs
    /\ "A" \notin DOMAIN store

\* C15 (what an upsert does): with F the SHA-256 fingerprint of the content,
\* upsert issues exactly one remote request when the cache has no entry for the
\* id or an entry different from F, and none when the entry equals F; when the
\* remote call succeeds the cache entry of the id becomes F, and the identifier,
\* action, chunk count and message returned are the ones in the store's
\* response, whatever the cache held.
C15_UpsertPostcondition ==
    last.op = "upsert" =>
      LET doc == last.docs[1]
          F == sha256_hexdigest(doc.content)
          hit == doc.id \in DOMAIN pre.pushed_docs /\ pre.pushed_docs[doc.id] = F
          reported == ServerUpsert(pre, doc.id, upsert_data(doc)).json
      IN /\ last.calls = (IF hit THEN 0 ELSE 1)
         /\ (~hit /\ last.nets[1] = "ok")
            => /\ ~last.raised
               /\ pushed_docs = DictSet(pre.pushed_docs, doc.id, F)
               /\ last.results =
                    <<UpsertResult(reported.documentId, reported.chunks,
                                   reported.action, reported.message)>>

\* C15's case: a successful upsert of an identifier the cache did not hold, which
\* the store answered with `unchanged` because it already held that content
C15_Witness ==
    /\ last.op = "upsert" /\ ~last.raised /\ last.calls = 1
    /\ last.docs[1].id \notin DOMAIN pre.pushed_docs
    /\ last.results[1].action = "unchanged"
    /\ pushed_docs[last.docs[1].id] = sha256_hexdigest(last.docs[1].content)

\* C16 (cache lifecycle): an identifier has a cache entry exactly when, in this
\* session, the store confirmed an upsert of it and no successful delete of it,
\* successful clear_all or successful sync with a keep-set excluding it came
\* after the most recent such upsert; the entry is the fingerprint of the content
\* of that upsert.  No other operation creates, changes or removes an entry.
C16_CacheLifecycle ==
    /\ DOMAIN pushed_docs = DOMAIN confirmed
    /\ \A id \in DOMAIN pushed_docs :
          pushed_docs[id] = sha256_hexdigest(confirmed[id])

\* C16's case: a successful sync has removed the entry of one identifier and kept
\* the entry of the other, whose most recent confirmed upsert carried "beta"
C16_Witness ==
    /\ last.op = "sync" /\ ~last.raised /\ last.keep_ids.given
    /\ DOMAIN pre.pushed_docs = Ids
    /\ DOMAIN pushed_docs = {"B"}
    /\ confirmed = [id \in {"B"} |-> "beta"]
    /\ "B" \in DOMAIN store /\ store["B"].content = "beta"

\* the caller's alternative to upsert_batch: upsert called on each document in
\* order, every remote call succeeding; the world left and the results in order
RECURSIVE UpsertInOrder(_, _)
UpsertInOrder(w, docs) ==
    IF docs = <<>>
    THEN [w |-> w, results |-> <<>>, calls |-> 0]
    ELSE LET first == upsert(w, Head(docs), "ok")
             rest == UpsertInOrder(first.w, Tail(docs))
         IN [w |-> rest.w, results |-> first.result \o rest.results,
             calls |-> first.calls + rest.calls]

C19_FrameOfOtherOperations ==
    /\ last.op \in ReadMethods \cup {"upload"}
       => /\ pushed_docs = pre.pushed_docs
          /\ last.calls = 1
    /\ last.op \in ReadMethods
       => last.results =
            read_only([pre EXCEPT !.pushed_docs = EmptyDict], last.op, last.nets[1]).result
    /\ (last.op = "upload" /\ ~last.raised)
       => /\ last.results =
               <<upload([pre EXCEPT !.pushed_docs = EmptyDict], last.docs[1].content,
                        "notes.txt", last.docs[1].metadata, "ok").json>>
          /\ last.results[1].documentId \in DOMAIN store \ DOMAIN pre.store
          /\ store[last.results[1].documentId].content = last.docs[1].content
          /\ last.results[1].documentId \notin DOMAIN pushed_docs
    /\ (last.op \in {"upsert", "delete"} /\ ~last.raised)
       => LET X == IF last.op = "upsert" THEN last.docs[1].id ELSE last.document_id
          IN \A id \in (DOMAIN pushed_docs \cup DOMAIN pre.pushed_docs) \ {X} :
                /\ id \in DOMAIN pushed_docs /\ id \in DOMAIN pre.pushed_docs
                /\ pushed_docs[id] = pre.pushed_docs[id]

\* C19's case: an upload has stored a document on a client whose cache holds
\* both identifiers; the cache is as before and has no entry for the new document
C19_Witness ==
    /\ last.op = "upload" /\ ~last.raised
    /\ last.results[1].documentId \in DOMAIN store
    /\ DOMAIN pre.pushed_docs = Ids
    /\ DOMAIN pushed_docs = Ids

\* C20 (sync is idempotent): when sync is called with the same keep_ids twice in
\* a row on one client, both calls succeeding and nothing happening in between,
\* the second call reports prunedCount 0 and leaves the store's documents and
\* the cache exactly as the first call left them.
C20_SyncIdempotent ==
    [][(/\ last.op = "sync" /\ ~last.raised
        /\ last'.op = "sync" /\ ~last'.raised
        /\ last'.keep_ids = last.keep_ids)
       => /\ last'.prunedCount = 0
          /\ store' = store
          /\ pushed_docs' = pushed_docs]_vars

\* C20's case: a first successful sync that pruned a document and dropped a
\* cache entry, after which the same call is repeated
C20_Witness ==
    /\ last.op = "sync" /\ ~last.raised /\ last.keep_ids.given
    /\ last.prunedCount >= 1
    /\ DOMAIN pre.pushed_docs = Ids
    /\ DOMAIN pushed_docs = {"A"} /\ DOMAIN store = {"A"}

\* C18 (`unchanged` is truthful under timeouts): with one client as the only
\* writer, where a remote call may also time out at the client after the store
\* applied it, whenever upsert returns `unchanged` for an id and a content
\* without a remote call, the store holds a document under that id whose
\* fingerprint is the one of the content.
C18_UnchangedIsTruthful ==
    (/\ last.op = "upsert" /\ ~last.raised /\ last.calls = 0
     /\ last.results[1].action = "unchanged")
    => /\ last.docs[1].id \in DOMAIN store
       /\ store[last.docs[1].id].contentHash = sha256_hexdigest(last.docs[1].content)

====
